---------------------------- MODULE Spec2Model ----------------------------
(***************************************************************************)
(* Model of the stream extractor: the resilient fetcher (fetchWithTimeout, *)
(* both copies), the concurrency limiter (mapWithConcurrencyLimit) and the *)
(* pipeline orchestrator (getStreamContent) with its page parsers.         *)
(***************************************************************************)
EXTENDS Integers, Sequences, FiniteSets, TLC

\* ------------------------------------------------------------------------
\* Bounds of the model
\* ------------------------------------------------------------------------

\* largest value of the `retries` argument explored for a lone fetch call
MaxRetries == 2
\* longest item list and largest limit explored for a lone limiter call: the
\* limit getStreamContent passes (4) is met by more items than workers
MaxItems == 5
MaxLimit == 4
\* most servers on an embed page, for one pipeline run and for two interleaved
MaxServers == 2
MaxServersConc == 1

\* ------------------------------------------------------------------------
\* Program constants
\* ------------------------------------------------------------------------

\* extractor copy: setTimeout(r, 200 * attempt)
EXTRACTOR_BACKOFF_MS == 200
\* manifest copy: setTimeout(r, 150 * attempt)
MANIFEST_BACKOFF_MS == 150
\* fetchWithTimeout(url, ..., 9000, 2) of the embed page and of each rcp page
EMBED_RETRIES == 2
RCP_RETRIES == 2
\* fetchWithTimeout(url, ..., 7000, 1) of the player page
PRORCP_RETRIES == 1
\* fetchWithTimeout(url, {}, 5000, 1) of the manifest
HLS_RETRIES == 1
\* mapWithConcurrencyLimit(servers, ..., 4)
RCP_LIMIT == 4

\* every sequence over S of length at most n
RECURSIVE SeqsUpTo(_, _)
SeqsUpTo(S, n) ==
  IF n = 0 THEN {<<>>}
  ELSE LET shorter == SeqsUpTo(S, n - 1) IN
       shorter \cup {Append(q, x) : q \in {t \in shorter : Len(t) = n - 1},
                                    x \in S}

\* ------------------------------------------------------------------------
\* fetchWithTimeout: values
\* ------------------------------------------------------------------------

\* HTTP statuses a server may answer with (boundaries of the ok and 4xx ranges)
Statuses == {200, 304, 400, 404, 499, 500, 503}

\* Response.ok of the fetch API, as tested by `!resp.ok`
RespOkAlways(status) == TRUE
RespOk(status) == status >= 200 /\ status <= 299

\* `resp.status >= 400 && resp.status < 500`
Is4xx(status) == status >= 400 /\ status < 500

NoErr == [type |-> "null", status |-> 0, at |-> 0]
NoResp == [ok |-> FALSE, status |-> 0, at |-> 0]

\* new Error('HTTP ' + resp.status + ' for ' + url), raised by attempt n
HttpError(status, n) == [type |-> "http", status |-> status, at |-> n]
\* what fetch() rejects with: a network failure, or the AbortError of the abort
TransportError(kind, n) == [type |-> kind, status |-> 0, at |-> n]

\* the two copies differ in their backoff base only
Copies == {"extractor", "manifest"}
BackoffBase(copy) == IF copy = "extractor" THEN EXTRACTOR_BACKOFF_MS
                     ELSE MANIFEST_BACKOFF_MS

\* state of one fetchWithTimeout call on entry: attempt = 0, lastErr = null
NewCall(copy, retries) ==
  [copy |-> copy, retries |-> retries, attempt |-> 0, lastErr |-> NoErr,
   pc |-> "loop", timers |-> {}, aborted |-> {}, waits |-> <<>>,
   ret |-> NoResp, thrown |-> NoErr]

\* `while (attempt <= retries)`
LoopCondOffByOne(c) == c.attempt <= c.retries + 1
LoopCond(c) == c.attempt <= c.retries

\* `if (attempt > retries) throw lastErr;` in the catch block
CatchExhausted(c) == c.attempt > c.retries

\* the catch block: lastErr = err; rethrow when exhausted, else back off
Catch(c, err) ==
  LET c1 == [c EXCEPT !.lastErr = err] IN
  IF CatchExhausted(c1)
  THEN [c1 EXCEPT !.pc = "thrown", !.thrown = err]
  ELSE [c1 EXCEPT !.pc = "backoff",
                  !.waits = Append(@, BackoffBase(c.copy) * c.attempt)]

\* top of the loop: either a new attempt (attempt++, a controller and its
\* timer, the request goes out) or the `throw lastErr` after the loop
LoopHead(c) ==
  IF LoopCond(c)
  THEN [c EXCEPT !.attempt = @ + 1, !.timers = @ \cup {c.attempt + 1},
                 !.pc = "fetching"]
  ELSE [c EXCEPT !.pc = "thrown", !.thrown = c.lastErr]

\* the awaited fetch resolves with a response of the given status
Respond(c, status) ==
  LET c1 == [c EXCEPT !.timers = @ \ {c.attempt}] IN
  IF ~RespOk(status)
  THEN LET err == HttpError(status, c.attempt)
           c2 == [c1 EXCEPT !.lastErr = err] IN
       IF Is4xx(status) THEN Catch(c2, err)
       ELSE [c2 EXCEPT !.pc = "loop"]
  ELSE [c1 EXCEPT !.pc = "returned",
                  !.ret = [ok |-> RespOk(status), status |-> status,
                           at |-> c.attempt]]

\* the awaited fetch rejects with a network error
Reject(c) == Catch(c, TransportError("network", c.attempt))

\* the timer of attempt n fires: controller.abort(); the request of that
\* attempt, if still in flight, rejects with the abort error (with one
\* controller for the whole call the abort would hit whatever is in flight)
TimerFiresAny(c, n) ==
  LET c1 == [c EXCEPT !.timers = @ \ {n}, !.aborted = @ \cup {n}] IN
  IF c.pc = "fetching"
  THEN Catch(c1, TransportError("abort", c.attempt))
  ELSE c1
TimerFires(c, n) ==
  LET c1 == [c EXCEPT !.timers = @ \ {n}, !.aborted = @ \cup {n}] IN
  IF c.pc = "fetching" /\ c.attempt = n
  THEN Catch(c1, TransportError("abort", n))
  ELSE c1

\* the backoff delay elapses
BackoffDone(c) == [c EXCEPT !.pc = "loop"]

CallSettled(c) == c.pc \in {"returned", "thrown"}


\* ------------------------------------------------------------------------
\* mapWithConcurrencyLimit: values
\* ------------------------------------------------------------------------

\* values an awaited fn may resolve to, the null of the catch, and the hole
\* of a JavaScript array slot never written
Val(v) == [tag |-> "val", v |-> v]
Null == [tag |-> "null", v |-> <<>>]
Hole == [tag |-> "hole", v |-> <<>>]

RECURSIVE Holes(_)
Holes(n) == IF n <= 0 THEN <<>> ELSE Append(Holes(n - 1), Hole)

\* `results[idx] = v` on a JavaScript array (idx counted from 0): the array
\* grows to idx + 1, the slots in between stay holes
ArrayPush(arr, idx, v) == Append(arr, v)
ArraySet(arr, idx, v) ==
  IF idx < Len(arr)
  THEN [arr EXCEPT ![idx + 1] = v]
  ELSE Append(arr \o Holes(idx - Len(arr)), v)

Idle == [pc |-> "new", idx |-> -1]

\* state of one mapWithConcurrencyLimit call on entry: results = [], i = 0
NewPool(items, limit) ==
  [items |-> items, limit |-> limit, i |-> 0, results |-> <<>>,
   w |-> [k \in 1..limit |-> Idle], invoked |-> <<>>,
   pc |-> "new"]

\* `i++`: the index after the claimed one
NextIndexSkip(p) == p.i + 2
NextIndex(p) == p.i + 1

\* one pass of a worker's loop up to its await:
\* `while (i < items.length) { const idx = i++; ... await fn(items[idx], idx)`
\* (a pass that does not wait for fn would start all the remaining items)
WorkerLoopNoAwait(p, k) ==
  IF p.i < Len(p.items)
  THEN [p EXCEPT !.i = Len(p.items),
                 !.w[k] = [pc |-> "awaiting", idx |-> Len(p.items) - 1],
                 !.invoked = @ \o [j \in 1..(Len(p.items) - p.i) |->
                                     p.i + j - 1]]
  ELSE [p EXCEPT !.w[k] = [pc |-> "done", idx |-> -1]]
WorkerLoop(p, k) ==
  IF p.i < Len(p.items)
  THEN [p EXCEPT !.i = NextIndex(p),
                 !.w[k] = [pc |-> "awaiting", idx |-> p.i],
                 !.invoked = Append(@, p.i)]
  ELSE [p EXCEPT !.w[k] = [pc |-> "done", idx |-> -1]]

\* `new Array(limit).fill(0).map(async () => ...)`: every worker runs, in
\* order, up to its first await
RECURSIVE StartWorkers(_, _)
StartWorkers(p, k) ==
  IF k > p.limit THEN [p EXCEPT !.pc = "running"]
  ELSE StartWorkers(WorkerLoop(p, k), k + 1)

\* the awaited fn of worker k resolved with v: `results[idx] = await fn(...)`
OnResolve(p, k, v) ==
  WorkerLoop([p EXCEPT !.results = ArraySet(@, p.w[k].idx, v)], k)

\* the awaited fn of worker k rejected: `catch (e) { results[idx] = null; }`
OnRejectPropagate(p, k) ==
  [p EXCEPT !.w[k] = [pc |-> "failed", idx |-> -1], !.pc = "rejected"]
OnReject(p, k) ==
  WorkerLoop([p EXCEPT !.results = ArraySet(@, p.w[k].idx, Null)], k)

\* `await Promise.all(workers)` waits for every worker (a race would go on
\* as soon as one is done)
AnyWorkerDone(p) == \E k \in 1..p.limit : p.w[k].pc = "done"
AllWorkersDone(p) == \A k \in 1..p.limit : p.w[k].pc = "done"

\* `await Promise.all(workers); return results;`
PoolReturn(p) == [p EXCEPT !.pc = "returned"]

InFlight(p) == {k \in 1..p.limit : p.w[k].pc = "awaiting"}

\* ------------------------------------------------------------------------
\* The pipeline: pages and what the parsers make of them
\* ------------------------------------------------------------------------

\* a URL origin, as scheme and host
Origin(scheme, host) == <<scheme, host>>
\* SOURCE_URL = 'https://vidsrc.xyz/embed'
SOURCE_ORIGIN == Origin("https:", "vidsrc.xyz")
\* the fallback base domain 'https://cloudnestra.com'
DEFAULT_DOMAIN == Origin("https:", "cloudnestra.com")

\* getRandomizedHeaders(baseDomain).Referer: (baseDomain || fallback) + '/'
NoDomain == <<>>
Referer(domain) ==
  (IF domain # NoDomain THEN domain ELSE DEFAULT_DOMAIN) \o <<"/">>

\* getUrl(id, type): id is the list of the ':'-separated parts of the id
Part(id, n) == IF n <= Len(id) THEN id[n] ELSE "undefined"
getUrl(id, type) ==
  IF type = "movie" THEN SOURCE_ORIGIN \o <<"embed", "movie">> \o id
  ELSE SOURCE_ORIGIN \o <<"embed", "tv", Part(id, 1), Part(id, 2), Part(id, 3)>>

\* the src attribute of the embed page's first iframe: absent (''),
\* protocol-relative ('//host/...'), absolute, or no URL at all
IframeSrcs ==
  {[form |-> "absent", scheme |-> "", host |-> ""],
   [form |-> "relative", scheme |-> "", host |-> "hostA"],
   [form |-> "absolute", scheme |-> "http:", host |-> "hostB"],
   [form |-> "invalid", scheme |-> "", host |-> ""]}

\* serversLoad's base domain: the origin of the iframe src, 'https:' put
\* before a protocol-relative one; the fallback when there is no src or
\* new URL() throws
InferBaseDomain(src) ==
  IF src.form = "absent" THEN DEFAULT_DOMAIN
  ELSE LET full == IF src.form = "relative"
                   THEN [src EXCEPT !.scheme = "https:", !.form = "absolute"]
                   ELSE src IN
       IF full.form = "absolute" THEN Origin(full.scheme, full.host)
       ELSE DEFAULT_DOMAIN

\* an element of class 'server': its text, its data-hash (or null), and
\* whether it lies inside the '.serversList' element
NoHash == "null"
ServerElements ==
  {[name |-> "s", dataHash |-> h, listed |-> TRUE] : h \in {"h1", NoHash}}
\* a 'server' element outside the list, which the selector must not match
StrayElement == [name |-> "x", dataHash |-> "h9", listed |-> FALSE]

\* an embed page, as far as serversLoad reads it: the iframe src, the title
\* and the 'server' elements in document order
Pages(maxServers) ==
  {[iframe |-> f, title |-> "T", elements |-> Append(ss, StrayElement)] :
     f \in IframeSrcs, ss \in SeqsUpTo(ServerElements, maxServers)}

\* $('.serversList .server').each(...): one entry per matching element
RECURSIVE SelectAll(_)
SelectAll(els) ==
  IF els = <<>> THEN <<>>
  ELSE <<[name |-> Head(els).name, dataHash |-> Head(els).dataHash]>>
       \o SelectAll(Tail(els))
RECURSIVE SelectServers(_)
SelectServers(els) ==
  IF els = <<>> THEN <<>>
  ELSE (IF Head(els).listed
        THEN <<[name |-> Head(els).name, dataHash |-> Head(els).dataHash]>>
        ELSE <<>>) \o SelectServers(Tail(els))

\* serversLoad(html)
serversLoad(page) ==
  [servers |-> SelectServers(page.elements), title |-> page.title,
   baseDomain |-> InferBaseDomain(page.iframe)]

\* the value of an rcp page's src: '...' assignment, as its '/'-separated
\* parts: '/prorcp/tok', '/prorcp/' (no token), '/other/tok', ''
RcpDatas == {<<"prorcp", "tok">>, <<"prorcp", "">>, <<"other", "tok">>, <<>>}
\* an rcp page: whether /src:\s*'([^']*)'/ matches, and what it captures
RcpBodies == {[match |-> FALSE, data |-> <<>>]}
             \cup {[match |-> TRUE, data |-> d] : d \in RcpDatas}

\* rcpGrabber(html): null, or { metadata: { image: '' }, data: match[1] }
rcpGrabber(body) == IF body.match THEN Val(body.data) ELSE Null

\* String(item.data || '').startsWith('/prorcp/')
StartsWithProrcpAny(data) == Len(data) >= 1
StartsWithProrcp(data) == Len(data) >= 2 /\ data[1] = "prorcp"
\* String(item.data).replace('/prorcp/', '')
ProrcpToken(data) == Tail(data)
\* `if (!prorcp) return null;`: the empty token
EmptyToken(token) == token = <<"">>

\* a player page: whether /file:\s*'([^']*)'/ matches, and what it captures
NoStream == ""
PlayerBodies == {[match |-> FALSE, file |-> ""]}
                \cup {[match |-> TRUE, file |-> u] : u \in {"", "u1", "u2"}}
\* PRORCPhandler's `(m && m[1]) ? m[1] : null`
PlayerFile(body) == IF body.match /\ body.file # "" THEN body.file ELSE NoStream

\* a manifest body: empty, text without '#EXT-X-STREAM-INF', a master
\* playlist, or text with the marker on which the parser throws
ManifestBodies == {"empty", "nomarker", "master", "broken"}
NullManifest == [isNull |-> TRUE, masterUrl |-> ""]
\* fetchAndParseHLS after the fetch: null, or parseHLSMaster(content, url)
ParseManifest(body, url) ==
  IF body = "master" THEN [isNull |-> FALSE, masterUrl |-> url]
  ELSE NullManifest

\* the entry getStreamContent pushes
StreamResult(title, id, stream, domain, hlsData) ==
  [name |-> title, image |-> "", mediaId |-> id, stream |-> stream,
   referer |-> domain, hlsData |-> hlsData]

\* what a response body read (`await resp.text()`) may end with
ReadError == "readerror"

\* ------------------------------------------------------------------------
\* The pipeline: one getStreamContent run
\* ------------------------------------------------------------------------

\* the invocations under study and their (id, type) arguments
Runs == {1, 2}
RunArgs(r) == IF r = 1 THEN [id |-> <<"tt1">>, type |-> "movie"]
              ELSE [id |-> <<"tt2", "1", "2">>, type |-> "series"]

\* no fetchWithTimeout call in progress
NoCall == [NewCall("extractor", 0) EXCEPT !.pc = "none"]
\* what a call's requests carry: the stage, the server index (from 0), the
\* origin of the URL and the Referer header
NoCtx == [kind |-> "none", srv |-> -1, base |-> <<>>, referer |-> <<>>]
Ctx(kind, srv, base, referer) ==
  [kind |-> kind, srv |-> srv, base |-> base, referer |-> referer]

\* a call runs on from the loop head to its next await without suspending
Advance(c) == IF c.pc = "loop" THEN LoopHead(c) ELSE c
\* a call entered: it runs up to the await of its first attempt
Enter(copy, retries) == Advance(NewCall(copy, retries))

NoLoad == [servers |-> <<>>, title |-> "", baseDomain |-> NoDomain]

\* the locals of a run; pc "off": not invoked, "start": invoked, not yet run
NewRun(r, pc) ==
  [pc |-> pc, id |-> RunArgs(r).id, type |-> RunArgs(r).type, url |-> <<>>,
   gotPage |-> FALSE, loaded |-> NoLoad, servers |-> <<>>, title |-> "",
   call |-> NoCall, ctx |-> NoCtx,
   pool |-> NewPool(<<>>, RCP_LIMIT),
   wfn |-> [k \in 1..RCP_LIMIT |-> "none"],
   wcall |-> [k \in 1..RCP_LIMIT |-> NoCall],
   wctx |-> [k \in 1..RCP_LIMIT |-> NoCtx],
   rcpResponses |-> <<>>, k |-> 0, stream |-> NoStream,
   apiResponse |-> <<>>, result |-> <<>>,
   players |-> {}, pushedFrom |-> <<>>]

\* where a run keeps its base domain: a binding of its own (the destructured
\* const of getStreamContent), not a slot shared by all runs
DomainSlotShared(r) == 1
DomainSlot(r) == r

\* getStreamContent up to the await of the embed fetch
StartRun(R) ==
  [R EXCEPT !.pc = "embed", !.url = getUrl(R.id, R.type),
            !.call = Enter("extractor", EMBED_RETRIES),
            !.ctx = Ctx("embed", -1, SOURCE_ORIGIN, Referer(NoDomain))]

\* `catch (e) { ...; return []; }` of the embed fetch
OnEmbedFailureRethrow(R) ==
  [R EXCEPT !.pc = "raised", !.call = NoCall, !.ctx = NoCtx]
OnEmbedFailure(R) ==
  [R EXCEPT !.pc = "done", !.result = <<>>, !.call = NoCall, !.ctx = NoCtx]

\* apiResponse.push({ name: title, ..., stream: streamUrl, referer:
\* baseDomain, hlsData }), for the item at position k of rcpResponses
PushResultIfManifest(R, hlsData, dom) ==
  IF hlsData.isNull THEN R
  ELSE [R EXCEPT !.apiResponse =
                    Append(@, StreamResult(R.title, R.id, R.stream, dom, hlsData)),
                 !.pushedFrom = Append(@, R.k - 1)]
PushResult(R, hlsData, dom) ==
  [R EXCEPT !.apiResponse =
              Append(@, StreamResult(R.title, R.id, R.stream, dom, hlsData)),
            !.pushedFrom = Append(@, R.k - 1)]

\* the for-of loop over rcpResponses from position k (from 1) on, up to its
\* next await on a request: null items, items whose data is no /prorcp/ path
\* and empty tokens (PRORCPhandler returns null at once) are passed over; a
\* token makes PRORCPhandler issue the player-page request; at the end of the
\* list getStreamContent returns apiResponse
RECURSIVE LoopFrom(_, _, _)
LoopFrom(R, k, dom) ==
  LET R0 == [R EXCEPT !.call = NoCall, !.ctx = NoCtx, !.stream = NoStream] IN
  IF k > Len(R.rcpResponses)
  THEN [R0 EXCEPT !.pc = "done", !.k = k, !.result = R.apiResponse]
  ELSE LET item == R.rcpResponses[k] IN
       IF item.tag # "val" THEN LoopFrom(R, k + 1, dom)
       ELSE IF ~StartsWithProrcp(item.v) THEN LoopFrom(R, k + 1, dom)
       ELSE IF EmptyToken(ProrcpToken(item.v)) THEN LoopFrom(R, k + 1, dom)
       ELSE [R0 EXCEPT !.pc = "prorcp", !.k = k,
                       !.call = Enter("extractor", PRORCP_RETRIES),
                       !.ctx = Ctx("prorcp", k - 1, dom, Referer(dom))]

\* the async fn of the rcp phase, entered by worker k for the index it has
\* claimed: null at once for a server without data-hash, else the rcp request
StartFn(R, k, dom) ==
  LET idx == R.pool.w[k].idx
      srv == R.servers[idx + 1] IN
  IF srv.dataHash = NoHash
  THEN [R EXCEPT !.wfn[k] = "null"]
  ELSE [R EXCEPT !.wfn[k] = "fetch",
                 !.wcall[k] = Enter("extractor", RCP_RETRIES),
                 !.wctx[k] = Ctx("rcp", idx, dom, Referer(dom))]

\* worker k after a pass of its loop: in fn for a new index, or finished
AfterClaim(R, k, dom) ==
  IF R.pool.w[k].pc = "awaiting" THEN StartFn(R, k, dom)
  ELSE [R EXCEPT !.wfn[k] = "none"]

RECURSIVE StartFns(_, _, _)
StartFns(R, k, dom) ==
  IF k > RCP_LIMIT THEN R ELSE StartFns(AfterClaim(R, k, dom), k + 1, dom)

\* mapWithConcurrencyLimit(servers, async (srv) => ..., 4) up to its await
CallMap(R, dom) ==
  StartFns([R EXCEPT !.pc = "rcp",
                     !.pool = StartWorkers(NewPool(R.servers, RCP_LIMIT), 1)],
           1, dom)

\* `if (!servers || servers.length === 0) return [];`
NoServers(servers) == Len(servers) = 0

\* the destructuring of serversLoad's result and what follows it
AfterServersLoad(R, dom) ==
  LET R1 == [R EXCEPT !.servers = R.loaded.servers, !.title = R.loaded.title] IN
  IF NoServers(R1.servers) THEN [R1 EXCEPT !.pc = "done", !.result = <<>>]
  ELSE CallMap(R1, dom)

\* the fn of worker k has returned v; the worker stores it and loops
SettleFn(R, k, v, dom) ==
  AfterClaim([R EXCEPT !.pool = OnResolve(R.pool, k, v),
                       !.wcall[k] = NoCall, !.wctx[k] = NoCtx], k, dom)

\* worker k's rcp call after an event: the body is read next, or the catch of
\* fn returns null, or the call goes on
AfterRcpCall(R, k, c, dom) ==
  IF c.pc = "returned" THEN [R EXCEPT !.wfn[k] = "text", !.wcall[k] = NoCall]
  ELSE IF c.pc = "thrown" THEN SettleFn(R, k, Null, dom)
  ELSE [R EXCEPT !.wcall[k] = c]

\* the embed, player-page or manifest call after an event: the body is read
\* next, or the stage's catch takes over, or the call goes on
AfterCall(R, c, dom) ==
  IF c.pc = "returned"
  THEN [R EXCEPT !.call = NoCall,
                 !.pc = IF R.pc = "embed" THEN "embedText"
                        ELSE IF R.pc = "prorcp" THEN "prorcpText"
                        ELSE "hlsText"]
  ELSE IF c.pc = "thrown"
  THEN IF R.pc = "embed" THEN OnEmbedFailure(R)
       ELSE IF R.pc = "prorcp" THEN LoopFrom(R, R.k + 1, dom)
       ELSE LoopFrom(PushResult(R, NullManifest, dom), R.k + 1, dom)
  ELSE [R EXCEPT !.call = c]

\* `if (!streamUrl) continue;`
StreamMissing(stream) == stream = NoStream

\* PRORCPhandler has returned `stream` for the item at position k: the item
\* is passed over, or fetchAndParseHLS issues the manifest request
AfterPlayerPage(R, stream, dom) ==
  IF StreamMissing(stream) THEN LoopFrom(R, R.k + 1, dom)
  ELSE [R EXCEPT !.pc = "hls", !.stream = stream,
                 !.call = Enter("manifest", HLS_RETRIES),
                 !.ctx = Ctx("hls", R.k - 1, <<"stream", stream>>, <<>>)]

\* fetchAndParseHLS has returned hlsData: the entry is pushed, the loop goes on
AfterManifest(R, hlsData, dom) ==
  LoopFrom(PushResult(R, hlsData, dom), R.k + 1, dom)

\* `await Promise.all(workers); return results;` and the start of the loop
AfterMap(R, dom) ==
  LoopFrom([R EXCEPT !.pool = PoolReturn(@), !.rcpResponses = R.pool.results],
           1, dom)

\* the requests of a run that are on the wire
Request(r, ctx) == [run |-> r, kind |-> ctx.kind, srv |-> ctx.srv,
                    base |-> ctx.base, referer |-> ctx.referer]
InFlightRequests(r, R) ==
  (IF R.call.pc = "fetching" THEN {Request(r, R.ctx)} ELSE {})
  \cup {Request(r, R.wctx[k]) :
          k \in {j \in 1..RCP_LIMIT : R.wcall[j].pc = "fetching"}}

\* the call slots of a run: 0 for the embed, player-page or manifest call,
\* k for the rcp call of worker k
Slots == 0..RCP_LIMIT
SlotCall(R, s) == IF s = 0 THEN R.call ELSE R.wcall[s]
SlotCtx(R, s) == IF s = 0 THEN R.ctx ELSE R.wctx[s]

\* in the step from R to R2 the call in slot s has put a request on the
\* wire: `await fetch(url, ...)` of a new attempt
Issues(R, R2, s) ==
  /\ SlotCall(R2, s).pc = "fetching"
  /\ ~(/\ SlotCall(R, s).pc = "fetching"
       /\ SlotCall(R, s).attempt = SlotCall(R2, s).attempt
       /\ SlotCtx(R, s) = SlotCtx(R2, s))

\* the request counts of a run, by stage and server index (-1: the embed
\* page), and their update over a step
RequestKeys(maxServers) ==
  {"embed", "rcp", "prorcp", "hls"} \X (-1..(maxServers - 1))
NoneSent(maxServers) == [key \in RequestKeys(maxServers) |-> 0]
Count(n, R, R2) ==
  [key \in DOMAIN n |->
     n[key] + Cardinality({s \in Slots :
                             /\ Issues(R, R2, s)
                             /\ key = <<SlotCtx(R2, s).kind,
                                        SlotCtx(R2, s).srv>>})]

\* ------------------------------------------------------------------------
\* The HTTP request wrapper (module.exports of the serverless entry)
\* ------------------------------------------------------------------------
\* per-request hard timeout, in milliseconds
HARD_TIMEOUT_MS == 24000
GATEWAY_TIMEOUT == 504
INTERNAL_ERROR == 500

\* the statuses the stremio handler answers with
HandlerStatuses == {200, 404, 500}

\* req.url: the routes the addon serves
RequestUrls ==
  {"/manifest.json", "/stream/movie/tt1.json", "/stream/series/tt1:1:1.json"}

\* one call of res.end: who made it and the status code in force
EndCall(by, status) == [by |-> by, status |-> status]

\* a request as the wrapper receives it: `finished` and `timer` are the
\* wrapper's locals, `ends` the res.end calls made on the response so far,
\* `finish` and `closed` the response's events
NewRequest(url) ==
  [url |-> url, pc |-> "idle", finished |-> FALSE,
   timer |-> [ms |-> HARD_TIMEOUT_MS, state |-> "unset"],
   listening |-> FALSE, handler |-> "unstarted", ends |-> <<>>,
   finish |-> "none", closed |-> FALSE]

\* res.end(...): the first call on an open response schedules 'finish'
ResEnd(w, by, status) ==
  [w EXCEPT !.ends = Append(@, EndCall(by, status)),
            !.finish = IF @ = "none" /\ ~w.closed THEN "due" ELSE @]

\* safeEnd(statusCode, data): guarded by the wrapper's own flag only
safeEnd(w, statusCode) ==
  IF w.finished THEN w
  ELSE ResEnd([w EXCEPT !.finished = TRUE], "wrapper", statusCode)

clearTimeout(w) ==
  [w EXCEPT !.timer.state = IF @ = "armed" THEN "cleared" ELSE @]

setTimeout(w) == [w EXCEPT !.timer.state = "armed"]

\* the timer's callback
OnHardTimeout(w) ==
  safeEnd([w EXCEPT !.timer.state = "fired"], GATEWAY_TIMEOUT)

\* the 'finish' and 'close' listeners
OnFinishOrClose(w) ==
  IF w.listening THEN [clearTimeout(w) EXCEPT !.finished = TRUE] ELSE w

\* the body of the wrapper after the timer is set: the handler either throws
\* synchronously (the catch clears the timer and answers 500), or returns
\* with the response already ended, or returns with the response pending;
\* in the last two cases the listeners are registered
CallHandler(w, how, status) ==
  CASE how = "throws" ->
         [safeEnd(clearTimeout(w), INTERNAL_ERROR)
            EXCEPT !.pc = "returned", !.handler = "threw"]
    [] how = "ends" ->
         [ResEnd(w, "handler", status)
            EXCEPT !.pc = "returned", !.handler = "ended",
                   !.listening = TRUE]
    [] OTHER ->
         [w EXCEPT !.pc = "returned", !.handler = "pending",
                   !.listening = TRUE]

\* the handler answers later, on the response object it was given
HandlerResponds(w, status) ==
  [ResEnd(w, "handler", status) EXCEPT !.handler = "ended"]

\* ------------------------------------------------------------------------
\* parseHLSMaster (manifest copy), as a function of the parsed manifest
\* ------------------------------------------------------------------------
\* the most playlists of a manifest
MaxPlaylists == 3

\* attributes.BANDWIDTH as the m3u8 parser leaves it: absent, NaN (digits
\* missing) or an integer
NoBandwidth == [kind |-> "missing", v |-> 0]
NaNBandwidth == [kind |-> "nan", v |-> 0]
NumBandwidth(v) == [kind |-> "num", v |-> v]
BandwidthAttrs ==
  {NoBandwidth, NaNBandwidth} \cup {NumBandwidth(v) : v \in {1500000, 6000000}}

\* attributes.RESOLUTION.height, 0 when the playlist has no RESOLUTION
Heights == {0, 720}
\* playlist.uri: absolute (starts with http) or relative to the master
Uris == {[abs |-> TRUE, text |-> "http://cdn/v.m3u8"],
         [abs |-> FALSE, text |-> "v.m3u8"]}
Playlists ==
  [bw : BandwidthAttrs, height : Heights, uri : Uris, n : {0}]
\* baseUrl: a URL, or a string `new URL` cannot resolve against
BaseUrls == {[valid |-> TRUE, text |-> "http://host/master.m3u8"],
             [valid |-> FALSE, text |-> "master.m3u8"]}

\* (a.attributes && Number(a.attributes.BANDWIDTH)) || 0
SortKey(playlist) ==
  IF playlist.bw.kind = "num" /\ playlist.bw.v # 0 THEN playlist.bw.v ELSE 0
\* Number(attrs.BANDWIDTH || 0)
PushedBandwidth(playlist) ==
  IF playlist.bw.kind = "num" THEN playlist.bw.v ELSE 0

\* the comparator handed to sort: negative when a goes first
CompareAscending(a, b) == SortKey(a) - SortKey(b)
Compare(a, b) == SortKey(b) - SortKey(a)

\* Array.prototype.sort is stable: x goes behind every element that does
\* not compare after it
RECURSIVE InsertSorted(_, _)
InsertSorted(x, sorted) ==
  IF sorted = <<>> THEN <<x>>
  ELSE IF Compare(x, Head(sorted)) < 0 THEN <<x>> \o sorted
  ELSE <<Head(sorted)>> \o InsertSorted(x, Tail(sorted))

RECURSIVE SortPlaylists(_)
SortPlaylists(playlists) ==
  IF playlists = <<>> THEN <<>>
  ELSE InsertSorted(playlists[Len(playlists)],
                    SortPlaylists(SubSeq(playlists, 1, Len(playlists) - 1)))

\* new URL(playlist.uri, baseUrl) throws when baseUrl is no URL
UrlThrows(playlist, baseUrl) == ~playlist.uri.abs /\ ~baseUrl.valid
PlaylistUrl(playlist, baseUrl) ==
  IF playlist.uri.abs THEN <<playlist.uri.text>>
  ELSE <<baseUrl.text, playlist.uri.text>>

QualityTitle(playlist) ==
  IF playlist.height # 0
  THEN (IF playlist.height >= 1080 THEN "1080p"
        ELSE IF playlist.height >= 720 THEN "720p"
        ELSE IF playlist.height >= 480 THEN "480p" ELSE "bare")
  ELSE (IF PushedBandwidth(playlist) > 5000000 THEN "High Quality"
        ELSE IF PushedBandwidth(playlist) > 2000000 THEN "Medium Quality"
        ELSE "Low Quality")

Quality(playlist, baseUrl) ==
  [height |-> playlist.height, bandwidth |-> PushedBandwidth(playlist),
   url |-> PlaylistUrl(playlist, baseUrl), title |-> QualityTitle(playlist),
   from |-> playlist.n]

NullMaster == [isNull |-> TRUE, masterUrl |-> "", qualities |-> <<>>]

\* the playlists are numbered by their place in the manifest, so that the
\* output can be traced back to them
Numbered(playlists) ==
  [i \in 1..Len(playlists) |-> [playlists[i] EXCEPT !.n = i]]

parseHLSMaster(playlists, baseUrl) ==
  LET sorted == SortPlaylists(Numbered(playlists))
  IN IF \E i \in 1..Len(sorted) : UrlThrows(sorted[i], baseUrl)
     THEN NullMaster
     ELSE [isNull |-> FALSE, masterUrl |-> baseUrl.text,
           qualities |-> [i \in 1..Len(sorted) |->
                            Quality(sorted[i], baseUrl)]]

\* a parseHLSMaster call: its arguments and, once it returned, its result
NewParse(playlists, baseUrl) ==
  [playlists |-> playlists, baseUrl |-> baseUrl, pc |-> "called",
   result |-> NullMaster]

\* ------------------------------------------------------------------------
\* State
\* ------------------------------------------------------------------------
VARIABLES
  call,      \* the fetchWithTimeout call under study
  outcomes,  \* what each attempt of `call` ended with, in order
  pool,      \* the mapWithConcurrencyLimit call under study
  settled,   \* how fn ended for each index of `pool` it was awaited on
  upstream,  \* the embed page the upstream site serves to each run
  run,       \* the getStreamContent invocations: their locals and position
  baseDomain,\* the base domain bindings, by slot
  requests,  \* every request sent so far
  sent,      \* how many requests each run has sent, by stage and server
  wrap,      \* one request through the HTTP request wrapper
  hls        \* the parseHLSMaster call under study

vars ==
  <<call, outcomes, pool, settled, upstream, run, baseDomain, requests,
    sent, wrap, hls>>
fetchVars == <<call, outcomes>>
poolVars == <<pool, settled>>
pipeVars == <<upstream, run, baseDomain, requests, sent>>
wrapVars == <<wrap>>
hlsVars == <<hls>>

\* the parts of the state a specification does not exercise stay as built
FetchUnused == call = NewCall("extractor", 0) /\ outcomes = <<>>
PoolUnused == pool = NewPool(<<>>, 1) /\ settled = {}
WrapUnused == wrap = NewRequest("/manifest.json")
HlsUnused == hls = NewParse(<<>>, CHOOSE b \in BaseUrls : b.valid)
\* a step of one part leaves the other parts alone
FetchFrame == UNCHANGED <<poolVars, pipeVars, wrapVars, hlsVars>>
MapFrame == UNCHANGED <<fetchVars, pipeVars, wrapVars, hlsVars>>
PipeFrame == UNCHANGED <<fetchVars, poolVars, wrapVars, hlsVars>>
WrapFrame == UNCHANGED <<fetchVars, poolVars, pipeVars, hlsVars>>
HlsFrame == UNCHANGED <<fetchVars, poolVars, pipeVars, wrapVars>>
\* the count is kept by the specifications that are about it
NotCounting == [on |-> FALSE, n |-> [r \in Runs |-> NoneSent(0)]]
Counting == [on |-> TRUE, n |-> [r \in Runs |-> NoneSent(MaxServers)]]
BlankPage == CHOOSE pg \in Pages(0) : pg.iframe.form = "absent"
PipeUnused ==
  /\ upstream = [r \in Runs |-> BlankPage]
  /\ run = [r \in Runs |-> NewRun(r, "off")]
  /\ baseDomain = [r \in Runs |-> NoDomain]
  /\ requests = {}
  /\ sent = NotCounting

Outcome(type, status) == [type |-> type, status |-> status]

\* ------------------------------------------------------------------------
\* A lone fetchWithTimeout call, any copy, any retries in 0..MaxRetries
\* ------------------------------------------------------------------------
FetchInit ==
  /\ \E copy \in Copies, r \in 0..MaxRetries : call = NewCall(copy, r)
  /\ outcomes = <<>>
  /\ PoolUnused
  /\ PipeUnused
  /\ WrapUnused
  /\ HlsUnused

FetchLoop ==
  /\ call.pc = "loop"
  /\ call' = LoopHead(call)
  /\ UNCHANGED outcomes
  /\ FetchFrame

FetchResponse ==
  /\ call.pc = "fetching"
  /\ \E s \in Statuses :
       /\ call' = Respond(call, s)
       /\ outcomes' = Append(outcomes, Outcome("http", s))
  /\ FetchFrame

FetchNetworkError ==
  /\ call.pc = "fetching"
  /\ call' = Reject(call)
  /\ outcomes' = Append(outcomes, Outcome("network", 0))
  /\ FetchFrame

FetchTimer ==
  /\ FetchFrame
  /\ \E n \in call.timers :
         /\ call' = TimerFires(call, n)
         /\ outcomes' = IF call.pc = "fetching" /\ call.attempt = n
                        THEN Append(outcomes, Outcome("abort", 0))
                        ELSE outcomes

FetchBackoff ==
  /\ call.pc = "backoff"
  /\ call' = BackoffDone(call)
  /\ UNCHANGED outcomes
  /\ FetchFrame

FetchNext ==
  \/ FetchLoop
  \/ FetchResponse
  \/ FetchNetworkError
  \/ FetchTimer
  \/ FetchBackoff

SpecFetch == FetchInit /\ [][FetchNext]_vars

\* ------------------------------------------------------------------------
\* Properties of fetchWithTimeout (checked under SpecFetch)
\* ------------------------------------------------------------------------
Is4xxOutcome(o) == o.type = "http" /\ o.status >= 400 /\ o.status <= 499
IsOkOutcome(o) == o.type = "http" /\ o.status >= 200 /\ o.status <= 299
\* 5xx (any non-ok, non-4xx response), network error or timeout
RetryableOutcome(o) == ~IsOkOutcome(o) /\ ~Is4xxOutcome(o)

\* C1: a 4xx response is terminal: the attempt that received it is the last
\* attempt of the call and the call has failed right after it (so a 4xx on the
\* first attempt leaves the attempt count at exactly 1).
C1_ClientErrorIsTerminal ==
  \A k \in 1..Len(outcomes) :
    Is4xxOutcome(outcomes[k]) => (call.attempt = k /\ call.pc = "thrown")

\* C2: the number of attempts issued never exceeds retries + 1, and a call
\* whose attempts all failed with a retryable failure (5xx, network error,
\* timeout) has failed after exactly retries + 1 attempts.
C2_AttemptsBounded ==
  /\ call.attempt <= call.retries + 1
  /\ Len(outcomes) <= call.attempt
  /\ (/\ call.pc = "thrown"
      /\ \A k \in 1..Len(outcomes) : RetryableOutcome(outcomes[k]))
     => (call.attempt = call.retries + 1 /\ Len(outcomes) = call.retries + 1)
  /\ (/\ \A k \in 1..Len(outcomes) : RetryableOutcome(outcomes[k])
      /\ call.attempt < call.retries + 1)
     => call.pc # "thrown"

\* C2 witness: three attempts, one of each retryable kind, then the failure
C2_Witness ==
  /\ call.pc = "thrown" /\ call.retries = 2 /\ call.attempt = 3
  /\ outcomes = <<Outcome("http", 500), Outcome("network", 0),
                  Outcome("abort", 0)>>

\* C3: the call ends in one of two ways: it returns the first ok response
\* observed, or, its attempts exhausted, it raises the error of the last
\* attempt made; it returns no null and no non-ok response.
C3_ReturnsOkOrRaisesLast ==
  LET n == Len(outcomes) IN
  /\ call.pc = "returned" =>
       /\ call.thrown = NoErr
       /\ call.ret.ok /\ call.ret.status >= 200 /\ call.ret.status <= 299
       /\ n = call.attempt /\ call.ret.at = n
       /\ outcomes[n] = Outcome("http", call.ret.status)
       /\ \A k \in 1..(n - 1) : ~IsOkOutcome(outcomes[k])
  /\ call.pc = "thrown" =>
       /\ call.ret = NoResp
       /\ call.attempt = call.retries + 1
       /\ n = call.attempt /\ call.thrown.at = n
       /\ call.thrown.type = outcomes[n].type
       /\ call.thrown.status = outcomes[n].status
       /\ \A k \in 1..n : ~IsOkOutcome(outcomes[k])
  /\ ~CallSettled(call) => (call.ret = NoResp /\ call.thrown = NoErr)

\* C3 witness: a timeout, then a 503 on the last attempt, which is raised
C3_Witness ==
  /\ call.pc = "thrown" /\ call.retries = 1
  /\ outcomes = <<Outcome("abort", 0), Outcome("http", 503)>>
  /\ call.thrown = HttpError(503, 2)

\* the delays a call has waited so far, were every retry preceded by its own
ExpectedWaits(c, n) == [k \in 1..n |-> BackoffBase(c.copy) * k]

\* C13: between two consecutive attempts fetchWithTimeout waits base * n, n
\* the number of the attempt that failed (base 200 or 150), whatever the
\* retryable failure was; nothing is waited after the last attempt.
C13_BackoffBetweenAttempts ==
  /\ call.pc \in {"fetching", "returned", "thrown"} /\ call.attempt > 0
       => call.waits = ExpectedWaits(call, call.attempt - 1)
  /\ call.pc = "backoff" => call.waits = ExpectedWaits(call, call.attempt)

\* C19: the timer of an attempt is cancelled as soon as the attempt settles,
\* with a response or with a transport error, so no abort timer of the call
\* is armed when it returns or raises.
C19_NoTimerLeftArmed ==
  /\ call.timers \subseteq (IF call.pc = "fetching" THEN {call.attempt} ELSE {})
  /\ CallSettled(call) => call.timers = {}

\* ------------------------------------------------------------------------
\* A lone mapWithConcurrencyLimit call: any item list of at most MaxItems
\* items, any limit in 1..MaxLimit, fn settling in any order
\* ------------------------------------------------------------------------
ItemValues == {"a", "b"}

\* what the asyncFn of this specification resolves to for an item
FnValue(item) == Val(<<"f", item>>)
Threw == [tag |-> "threw", v |-> <<>>]

MapInit ==
  /\ \E items \in SeqsUpTo(ItemValues, MaxItems), limit \in 1..MaxLimit :
       pool = NewPool(items, limit)
  /\ settled = {}
  /\ FetchUnused
  /\ PipeUnused
  /\ WrapUnused
  /\ HlsUnused

MapCall ==
  /\ pool.pc = "new"
  /\ pool' = StartWorkers(pool, 1)
  /\ UNCHANGED settled
  /\ MapFrame

MapFnResolves ==
  /\ MapFrame
  /\ \E k \in InFlight(pool) :
         LET idx == pool.w[k].idx
             v == FnValue(pool.items[idx + 1]) IN
         /\ pool.pc = "running"
         /\ pool' = OnResolve(pool, k, v)
         /\ settled' = settled \cup {[idx |-> idx, out |-> v]}

MapFnRejects ==
  /\ MapFrame
  /\ \E k \in InFlight(pool) :
         /\ pool.pc \in {"running", "rejected"}
         /\ pool' = OnReject(pool, k)
         /\ settled' = settled \cup {[idx |-> pool.w[k].idx, out |-> Threw]}

MapReturn ==
  /\ pool.pc = "running"
  /\ AllWorkersDone(pool)
  /\ pool' = PoolReturn(pool)
  /\ UNCHANGED settled
  /\ MapFrame

MapNext ==
  \/ MapCall
  \/ MapFnResolves
  \/ MapFnRejects
  \/ MapReturn

SpecMap == MapInit /\ [][MapNext]_vars

\* ------------------------------------------------------------------------
\* Properties of mapWithConcurrencyLimit (checked under SpecMap)
\* ------------------------------------------------------------------------
SettledAt(idx) == {r \in settled : r.idx = idx}

\* C4: the call resolves to a list as long as items whose entry i is what fn
\* produced for items[i], whatever the order in which the fn calls completed.
C4_ResultsIndexAddressed ==
  pool.pc = "returned" =>
    /\ Len(pool.results) = Len(pool.items)
    /\ \A n \in 1..Len(pool.items) :
         \/ pool.results[n] = FnValue(pool.items[n])
         \/ /\ pool.results[n] = Null
            /\ [idx |-> n - 1, out |-> Threw] \in settled

\* C4 witness: two workers, three different items, the second item's fn done
\* before the first's, every entry in place
C4_Witness ==
  /\ pool.pc = "returned" /\ pool.limit = 2
  /\ pool.items = <<"a", "b", "a">>
  /\ pool.invoked = <<0, 1, 2>>
  /\ pool.results = <<FnValue("a"), FnValue("b"), FnValue("a")>>

\* C5: a failing fn leaves null at its own index, every other item is still
\* processed and keeps its own result, and the call resolves, never rejects.
C5_FailuresIsolated ==
  /\ pool.pc # "rejected"
  /\ \A k \in 1..pool.limit : pool.w[k].pc # "failed"
  /\ pool.pc = "returned" =>
       \A n \in 1..Len(pool.items) :
         /\ SettledAt(n - 1) # {}
         /\ \A r \in SettledAt(n - 1) :
              pool.results[n] = IF r.out = Threw THEN Null ELSE r.out

\* C5 witness: the first item failed, the two after it have their values
C5_Witness ==
  /\ pool.pc = "returned"
  /\ pool.items = <<"a", "b", "b">>
  /\ [idx |-> 0, out |-> Threw] \in settled
  /\ pool.results = <<Null, FnValue("b"), FnValue("b")>>

\* C18: every index 0..items.length-1 is claimed by exactly one worker and
\* fn is invoked exactly once for each item, none skipped and none repeated,
\* in whatever order the workers run.
C18_EachItemOnce ==
  /\ pool.invoked = [n \in 1..Len(pool.invoked) |-> n - 1]
  /\ Len(pool.invoked) <= Len(pool.items)
  /\ \A k, j \in InFlight(pool) : pool.w[k].idx = pool.w[j].idx => k = j
  /\ \A k \in InFlight(pool) :
       \E n \in 1..Len(pool.invoked) : pool.invoked[n] = pool.w[k].idx
  /\ \A idx \in 0..(Len(pool.items) - 1) : Cardinality(SettledAt(idx)) <= 1
  /\ pool.pc = "returned" =>
       /\ Len(pool.invoked) = Len(pool.items)
       /\ \A idx \in 0..(Len(pool.items) - 1) :
            Cardinality(SettledAt(idx)) = 1

\* C18 witness: five items shared by two workers, all of them done
C18_Witness ==
  /\ pool.pc = "returned" /\ pool.limit = 2
  /\ pool.invoked = <<0, 1, 2, 3, 4>>
  /\ Cardinality(settled) = 5

\* the per-item operations in flight: fn was invoked and has not settled
OpsInFlight == {n \in 1..Len(pool.invoked) : SettledAt(pool.invoked[n]) = {}}

\* C15: at every moment of a mapWithConcurrencyLimit call at most `limit`
\* per-item operations are in flight, and at most as many as there are
\* items; with the limit getStreamContent passes that is at most 4.
C15_InFlightBounded ==
  /\ Cardinality(OpsInFlight) <= pool.limit
  /\ Cardinality(OpsInFlight) <= Len(pool.items)
  /\ pool.limit = RCP_LIMIT => Cardinality(OpsInFlight) <= 4

\* C15 witness: five items under the limit of getStreamContent, one settled,
\* four in flight
C15_Witness ==
  /\ pool.limit = RCP_LIMIT /\ Len(pool.items) = 5
  /\ Cardinality(settled) = 1
  /\ Cardinality(OpsInFlight) = 4

\* ------------------------------------------------------------------------
\* getStreamContent invocations against an upstream site
\* ------------------------------------------------------------------------

\* statuses the upstream answers with: ok, client error, server error
PipeStatuses == {200, 404, 503}

\* the base domain run r reads when it builds a URL, a header or an entry
Dom(r) == baseDomain[DomainSlot(r)]

\* run r has moved to R: its requests on the wire are (or stay) recorded,
\* and counted where the specification keeps count
Commit(r, R) ==
  \E R2 \in {R} :
    /\ run' = [run EXCEPT ![r] = R2]
    /\ requests' = requests \cup InFlightRequests(r, R2)
    /\ sent' = IF sent.on
               THEN [sent EXCEPT !.n[r] = Count(@, run[r], R2)]
               ELSE sent

SeqStages == {"embed", "prorcp", "hls"}
Fetching(R) == R.pc \in SeqStages /\ R.call.pc = "fetching"
WorkersIn(R, fn, cpc) ==
  {k \in 1..RCP_LIMIT : R.pc = "rcp" /\ R.wfn[k] = fn /\ R.wcall[k].pc = cpc}

Invoke(r) ==
  /\ run[r].pc = "start"
  /\ Commit(r, StartRun(run[r]))
  /\ UNCHANGED <<upstream, baseDomain>>
  /\ PipeFrame

SeqResponse(r) ==
  /\ Fetching(run[r])
  /\ \E s \in PipeStatuses :
       Commit(r, AfterCall(run[r], Advance(Respond(run[r].call, s)), Dom(r)))
  /\ UNCHANGED <<upstream, baseDomain>>
  /\ PipeFrame

SeqNetworkError(r) ==
  /\ Fetching(run[r])
  /\ Commit(r, AfterCall(run[r], Advance(Reject(run[r].call)), Dom(r)))
  /\ UNCHANGED <<upstream, baseDomain>>
  /\ PipeFrame

SeqTimeout(r) ==
  /\ Fetching(run[r])
  /\ Commit(r, AfterCall(run[r],
                 Advance(TimerFires(run[r].call, run[r].call.attempt)), Dom(r)))
  /\ UNCHANGED <<upstream, baseDomain>>
  /\ PipeFrame

SeqBackoff(r) ==
  /\ run[r].pc \in SeqStages /\ run[r].call.pc = "backoff"
  /\ Commit(r, AfterCall(run[r], Advance(BackoffDone(run[r].call)), Dom(r)))
  /\ UNCHANGED <<upstream, baseDomain>>
  /\ PipeFrame

\* `embedText = await embedResp.text()` and serversLoad(embedText)
EmbedText(r) ==
  /\ run[r].pc = "embedText"
  /\ \E readOk \in BOOLEAN :
       Commit(r, IF readOk
                 THEN [run[r] EXCEPT !.pc = "servers", !.gotPage = TRUE,
                                     !.loaded = serversLoad(upstream[r])]
                 ELSE OnEmbedFailure(run[r]))
  /\ UNCHANGED <<upstream, baseDomain>>
  /\ PipeFrame

\* `const { servers, title, baseDomain } = await serversLoad(embedText)`
ServersLoaded(r) ==
  /\ run[r].pc = "servers"
  /\ baseDomain' = [baseDomain EXCEPT ![DomainSlot(r)] = run[r].loaded.baseDomain]
  /\ Commit(r, AfterServersLoad(run[r], run[r].loaded.baseDomain))
  /\ UNCHANGED upstream
  /\ PipeFrame

RcpResponse(r) ==
  /\ \E k \in WorkersIn(run[r], "fetch", "fetching"), s \in PipeStatuses :
       Commit(r, AfterRcpCall(run[r], k,
                              Advance(Respond(run[r].wcall[k], s)), Dom(r)))
  /\ UNCHANGED <<upstream, baseDomain>>
  /\ PipeFrame

RcpNetworkError(r) ==
  /\ \E k \in WorkersIn(run[r], "fetch", "fetching") :
       Commit(r, AfterRcpCall(run[r], k,
                              Advance(Reject(run[r].wcall[k])), Dom(r)))
  /\ UNCHANGED <<upstream, baseDomain>>
  /\ PipeFrame

RcpTimeout(r) ==
  /\ \E k \in WorkersIn(run[r], "fetch", "fetching") :
       Commit(r, AfterRcpCall(run[r], k,
                   Advance(TimerFires(run[r].wcall[k], run[r].wcall[k].attempt)),
                   Dom(r)))
  /\ UNCHANGED <<upstream, baseDomain>>
  /\ PipeFrame

RcpBackoff(r) ==
  /\ \E k \in WorkersIn(run[r], "fetch", "backoff") :
       Commit(r, AfterRcpCall(run[r], k,
                              Advance(BackoffDone(run[r].wcall[k])), Dom(r)))
  /\ UNCHANGED <<upstream, baseDomain>>
  /\ PipeFrame

\* `const txt = await rcpResp.text(); return await rcpGrabber(txt);`
RcpText(r) ==
  /\ \E k \in WorkersIn(run[r], "text", "none"), readOk \in BOOLEAN,
        body \in RcpBodies :
       Commit(r, SettleFn(run[r], k,
                          IF readOk THEN rcpGrabber(body) ELSE Null, Dom(r)))
  /\ UNCHANGED <<upstream, baseDomain>>
  /\ PipeFrame

\* `if (!srv || !srv.dataHash) return null;`
RcpNoHash(r) ==
  /\ \E k \in WorkersIn(run[r], "null", "none") :
       Commit(r, SettleFn(run[r], k, Null, Dom(r)))
  /\ UNCHANGED <<upstream, baseDomain>>
  /\ PipeFrame

RcpDone(r) ==
  /\ run[r].pc = "rcp"
  /\ AllWorkersDone(run[r].pool)
  /\ Commit(r, AfterMap(run[r], Dom(r)))
  /\ UNCHANGED <<upstream, baseDomain>>
  /\ PipeFrame

\* `const text = await resp.text()` of PRORCPhandler and its pattern match
ProrcpText(r) ==
  /\ run[r].pc = "prorcpText"
  /\ \E readOk \in BOOLEAN, body \in PlayerBodies :
       LET R == [run[r] EXCEPT !.players =
                   @ \cup {[srv |-> run[r].k - 1, readOk |-> readOk,
                            body |-> body]}] IN
       Commit(r, AfterPlayerPage(R, IF readOk THEN PlayerFile(body)
                                    ELSE NoStream, Dom(r)))
  /\ UNCHANGED <<upstream, baseDomain>>
  /\ PipeFrame

\* `const content = await resp.text()` of fetchAndParseHLS and the parse
HlsText(r) ==
  /\ run[r].pc = "hlsText"
  /\ \E readOk \in BOOLEAN, body \in ManifestBodies :
       Commit(r, AfterManifest(run[r],
                   IF readOk THEN ParseManifest(body, run[r].stream)
                   ELSE NullManifest, Dom(r)))
  /\ UNCHANGED <<upstream, baseDomain>>
  /\ PipeFrame

PipeNext ==
  \/ \E r \in Runs : Invoke(r)
  \/ \E r \in Runs : SeqResponse(r)
  \/ \E r \in Runs : SeqNetworkError(r)
  \/ \E r \in Runs : SeqTimeout(r)
  \/ \E r \in Runs : SeqBackoff(r)
  \/ \E r \in Runs : EmbedText(r)
  \/ \E r \in Runs : ServersLoaded(r)
  \/ \E r \in Runs : RcpResponse(r)
  \/ \E r \in Runs : RcpNetworkError(r)
  \/ \E r \in Runs : RcpTimeout(r)
  \/ \E r \in Runs : RcpBackoff(r)
  \/ \E r \in Runs : RcpText(r)
  \/ \E r \in Runs : RcpNoHash(r)
  \/ \E r \in Runs : RcpDone(r)
  \/ \E r \in Runs : ProrcpText(r)
  \/ \E r \in Runs : HlsText(r)

\* one invocation, against any embed page of at most MaxServers servers
PipeInit ==
  /\ \E pg \in Pages(MaxServers) :
       upstream = [r \in Runs |-> IF r = 1 THEN pg ELSE BlankPage]
  /\ run = [r \in Runs |-> NewRun(r, IF r = 1 THEN "start" ELSE "off")]
  /\ baseDomain = [r \in Runs |-> NoDomain]
  /\ requests = {}
  /\ sent = NotCounting
  /\ FetchUnused
  /\ PoolUnused
  /\ WrapUnused
  /\ HlsUnused

\* a timer left set by an earlier attempt of a call that is still going on
\* (no clearTimeout when the fetch rejected) fires
StaleTimers(c) ==
  {n \in c.timers : ~(c.pc = "fetching" /\ c.attempt = n)}

SeqStaleTimer(r) ==
  /\ run[r].pc \in SeqStages
  /\ \E n \in StaleTimers(run[r].call) :
       Commit(r, [run[r] EXCEPT !.call = TimerFires(@, n)])
  /\ UNCHANGED <<upstream, baseDomain>>
  /\ PipeFrame

RcpStaleTimer(r) ==
  /\ \E k \in 1..RCP_LIMIT :
       /\ run[r].pc = "rcp" /\ run[r].wfn[k] = "fetch"
       /\ \E n \in StaleTimers(run[r].wcall[k]) :
            Commit(r, [run[r] EXCEPT !.wcall[k] = TimerFires(@, n)])
  /\ UNCHANGED <<upstream, baseDomain>>
  /\ PipeFrame

RunNext ==
  \/ PipeNext
  \/ \E r \in Runs : SeqStaleTimer(r)
  \/ \E r \in Runs : RcpStaleTimer(r)

Spec == PipeInit /\ [][RunNext]_vars

\* two invocations interleaved, each against its own embed page of at most
\* MaxServersConc servers
ConcInit ==
  /\ upstream \in [Runs -> Pages(MaxServersConc)]
  /\ run = [r \in Runs |-> NewRun(r, "start")]
  /\ baseDomain = [r \in Runs |-> NoDomain]
  /\ requests = {}
  /\ sent = NotCounting
  /\ FetchUnused
  /\ PoolUnused
  /\ WrapUnused
  /\ HlsUnused

SpecConc == ConcInit /\ [][PipeNext]_vars

\* ------------------------------------------------------------------------
\* Properties of getStreamContent (checked under Spec, one invocation)
\* ------------------------------------------------------------------------

\* the servers an embed page lists: its elements inside '.serversList'
ListedServers(page) == SelectSeq(page.elements, LAMBDA e : e.listed)

RequestsOf(r, kinds) == {q \in requests : q.run = r /\ q.kind \in kinds}

\* C6: getStreamContent never raises, whatever fails upstream at whatever
\* stage: it ends by returning a list, and a run in which no player page
\* could be read returns the empty list.
C6_NeverRaises ==
  \A r \in Runs :
    /\ run[r].pc # "raised"
    /\ run[r].pc = "done" =>
         /\ Len(run[r].result) = Len(run[r].pushedFrom)
         /\ run[r].players = {} => run[r].result = <<>>

\* C6 witness: the embed and rcp stages went through, the player-page
\* request was sent, nothing came of it, and the run returned []
C6_Witness ==
  /\ run[1].pc = "done" /\ run[1].result = <<>>
  /\ run[1].players = {}
  /\ RequestsOf(1, {"prorcp"}) # {}

\* C7: an embed page with zero servers makes the run return [] with no rcp,
\* player-page or manifest request ever sent.
C7_NoServersNoRequests ==
  \A r \in Runs :
    (run[r].gotPage /\ ListedServers(upstream[r]) = <<>>) =>
      /\ run[r].pc \in {"servers", "done"}
      /\ run[r].pc = "done" => run[r].result = <<>>
      /\ RequestsOf(r, {"rcp", "prorcp", "hls"}) = {}

\* C7 witness: a loaded page without servers, the run over
C7_Witness ==
  /\ run[1].gotPage /\ ListedServers(upstream[1]) = <<>>
  /\ run[1].pc = "done" /\ run[1].result = <<>>

\* the positions (from 0) of the servers whose rcp result holds data that is
\* no /prorcp/ path
NonProrcpServers(R) ==
  {n - 1 : n \in {m \in 1..Len(R.pool.results) :
                    /\ R.pool.results[m].tag = "val"
                    /\ ~(/\ Len(R.pool.results[m].v) >= 2
                         /\ R.pool.results[m].v[1] = "prorcp")}}

\* C8: an rcp result whose data does not begin with /prorcp/ adds no entry to
\* the output and causes no player-page and no manifest request, whatever the
\* other servers return.
C8_NonProrcpSkipped ==
  \A r \in Runs : \A i \in NonProrcpServers(run[r]) :
    /\ \A q \in RequestsOf(r, {"prorcp", "hls"}) : q.srv # i
    /\ \A n \in 1..Len(run[r].pushedFrom) : run[r].pushedFrom[n] # i
    /\ \A pl \in run[r].players : pl.srv # i

\* C8 witness: the first server's data is '/other/tok', the second server
\* went all the way to an entry
C8_Witness ==
  /\ run[1].pc = "done" /\ Len(run[1].rcpResponses) = 2
  /\ run[1].rcpResponses[1] = Val(<<"other", "tok">>)
  /\ run[1].pushedFrom = <<1>>
  /\ Len(run[1].result) = 1

\* the streams the player pages yielded, in server order: for each server
\* position from i on whose player page was read and matched a non-empty file
RECURSIVE YieldedFrom(_, _)
YieldedFrom(R, i) ==
  IF i >= Len(R.servers) THEN <<>>
  ELSE LET got == {pl \in R.players :
                     pl.srv = i /\ pl.readOk /\ pl.body.match /\ pl.body.file # ""} IN
       (IF got = {} THEN <<>>
        ELSE <<[srv |-> i, stream |-> (CHOOSE pl \in got : TRUE).body.file]>>)
       \o YieldedFrom(R, i + 1)

\* C9: the run returns exactly one entry per server whose rcp result is a
\* /prorcp/ path and whose player page yielded a stream URL, in server order,
\* a null manifest included; so never more entries than servers.
C9_OneResultPerStream ==
  \A r \in Runs :
    run[r].pc = "done" =>
      LET R == run[r]
          want == YieldedFrom(R, 0) IN
      /\ Len(R.result) = Len(want)
      /\ R.pushedFrom = [n \in 1..Len(want) |-> want[n].srv]
      /\ \A n \in 1..Len(want) :
           /\ R.result[n].stream = want[n].stream
           /\ R.result[n].name = upstream[r].title
           /\ R.result[n].mediaId = R.id
           /\ R.rcpResponses[want[n].srv + 1].tag = "val"
           /\ R.rcpResponses[want[n].srv + 1].v[1] = "prorcp"
      /\ Len(R.result) <= Len(R.servers)
      /\ \A pl \in R.players : \A pm \in R.players : pl.srv = pm.srv => pl = pm

\* C9 witness: two servers, two entries in server order, the first with a
\* null manifest
C9_Witness ==
  /\ run[1].pc = "done" /\ Len(run[1].servers) = 2
  /\ Len(run[1].result) = 2
  /\ run[1].result[1].stream = "u2" /\ run[1].result[1].hlsData.isNull
  /\ run[1].result[2].stream = "u1" /\ ~run[1].result[2].hlsData.isNull

\* ------------------------------------------------------------------------
\* Properties of interleaved invocations (checked under SpecConc)
\* ------------------------------------------------------------------------

\* C10: whatever the interleaving of the runs, every rcp and player-page
\* request of a run carries the base domain derived from that run's own embed
\* page, in its URL and in its Referer, and so does the referer of every
\* entry the run has built.
C10_BaseDomainPerRun ==
  \A r \in Runs :
    LET own == InferBaseDomain(upstream[r].iframe) IN
    /\ \A q \in RequestsOf(r, {"rcp", "prorcp"}) :
         q.base = own /\ q.referer = own \o <<"/">>
    /\ \A n \in 1..Len(run[r].apiResponse) : run[r].apiResponse[n].referer = own

\* C10 witness: both runs under way at once on different domains, the first
\* at its player page, the second at its rcp page
C10_Witness ==
  /\ InferBaseDomain(upstream[1].iframe) # InferBaseDomain(upstream[2].iframe)
  /\ run[1].pc = "prorcp" /\ run[2].pc = "rcp"
  /\ RequestsOf(1, {"prorcp"}) # {} /\ RequestsOf(2, {"rcp"}) # {}


\* ------------------------------------------------------------------------
\* More properties of getStreamContent (checked under Spec)
\* ------------------------------------------------------------------------
\* the attempts of call c whose controller was aborted in the step to c2
AbortedNow(c, c2) == c2.aborted \ c.aborted

\* what an abort may do to the call it belongs to: the attempt in flight, if
\* it is the aborted one, fails with the abort error and is retried after
\* the backoff; any other attempt's abort changes nothing
AbortOwnAttempt(c, c2) ==
  \A n \in AbortedNow(c, c2) :
    LET c1 == [c EXCEPT !.timers = @ \ {n}, !.aborted = @ \cup {n}] IN
    IF c.pc = "fetching" /\ c.attempt = n
    THEN /\ c2.pc = "backoff" /\ c2.attempt = n
         /\ c2.lastErr = TransportError("abort", n)
    ELSE c2 = c1

\* C14: every attempt has its own abort controller and timer: a timed-out
\* attempt is aborted and counts as a retryable failure of that attempt, and
\* the abort touches nothing else: no sibling server's request, no later
\* attempt, nothing of the rest of the run.
C14_AbortHitsOwnAttempt ==
  [][\A r \in Runs :
       /\ AbortedNow(run[r].call, run'[r].call) # {}
            => /\ AbortOwnAttempt(run[r].call, run'[r].call)
               /\ run'[r] = [run[r] EXCEPT !.call = run'[r].call]
       /\ \A k \in 1..RCP_LIMIT :
            AbortedNow(run[r].wcall[k], run'[r].wcall[k]) # {}
              => /\ AbortOwnAttempt(run[r].wcall[k], run'[r].wcall[k])
                 /\ run'[r] = [run[r] EXCEPT !.wcall[k] = run'[r].wcall[k]]]_vars

\* server 0's second attempt is in flight after the timer of its first, which
\* failed on the network, has fired; server 1's first attempt was aborted
C14_Witness ==
  /\ run[1].pc = "rcp"
  /\ run[1].wcall[1].pc = "fetching" /\ run[1].wcall[1].attempt = 2
  /\ run[1].wcall[1].aborted = {1}
  /\ run[1].wcall[1].lastErr = TransportError("network", 1)
  /\ run[1].wcall[2].pc = "backoff" /\ run[1].wcall[2].attempt = 1
  /\ run[1].wcall[2].lastErr = TransportError("abort", 1)

\* C16: when the embed page fetch fails (attempts exhausted, a non-ok
\* response, or the body unreadable) the run returns [] at once and sends no
\* rcp, player-page or manifest request.
C16_EmbedFailureStops ==
  \A r \in Runs :
    ~run[r].gotPage =>
      /\ run[r].pc \in {"off", "start", "embed", "embedText", "done"}
      /\ run[r].pc = "done" => run[r].result = <<>>
      /\ RequestsOf(r, {"rcp", "prorcp", "hls"}) = {}

\* C16 witness: the page upstream lists a server with a data-hash, the embed
\* fetch failed, the run is over and only embed requests were sent
C16_Witness ==
  /\ run[1].pc = "done" /\ ~run[1].gotPage /\ run[1].result = <<>>
  /\ \E i \in 1..Len(ListedServers(upstream[1])) :
       ListedServers(upstream[1])[i].dataHash # NoHash
  /\ RequestsOf(1, {"embed"}) = requests /\ requests # {}

\* the calls of a run that have a request on the wire
CallsInFlight(R) ==
  (IF R.call.pc = "fetching" THEN 1 ELSE 0)
  + Cardinality({k \in 1..RCP_LIMIT : R.wcall[k].pc = "fetching"})

RcpPhaseOver(R) == R.pc \in {"prorcp", "prorcpText", "hls", "hlsText", "done"}

\* C17: a run sends its requests stage by stage: no rcp request before the
\* embed fetch succeeded, no player-page request before every server's rcp
\* operation settled, a manifest request only after the player page of its
\* own server gave a stream URL, and once the rcp phase is over at most one
\* request in flight at any time.
C17_StageByStage ==
  \A r \in Runs :
    /\ RequestsOf(r, {"rcp"}) # {} => run[r].gotPage
    /\ RequestsOf(r, {"prorcp", "hls"}) # {} =>
         /\ \A k \in 1..RCP_LIMIT :
              run[r].pool.w[k].pc = "done" /\ run[r].wcall[k].pc = "none"
         /\ Len(run[r].rcpResponses) = Len(run[r].servers)
    /\ \A q \in RequestsOf(r, {"hls"}) :
         /\ \E pl \in run[r].players :
              pl.srv = q.srv /\ pl.readOk /\ PlayerFile(pl.body) # NoStream
         /\ \E q2 \in RequestsOf(r, {"prorcp"}) : q2.srv = q.srv
    /\ RcpPhaseOver(run[r]) => CallsInFlight(run[r]) <= 1
    /\ run[r].pc = "rcp" => run[r].call.pc = "none"

\* C17 witness: two servers, both went through every stage, and the manifest
\* request of the second is the one request in flight
C17_Witness ==
  /\ run[1].pc = "hls" /\ CallsInFlight(run[1]) = 1
  /\ {q.srv : q \in RequestsOf(1, {"rcp"})} = {0, 1}
  /\ {q.srv : q \in RequestsOf(1, {"prorcp"})} = {0, 1}
  /\ {q.srv : q \in RequestsOf(1, {"hls"})} = {0, 1}

\* ------------------------------------------------------------------------
\* One invocation with its requests counted, every pending step taken in
\* the end: a response, a rejection or the timeout of each attempt, the end
\* of each backoff, each read of a body
\* ------------------------------------------------------------------------
LiveInit ==
  /\ \E pg \in Pages(MaxServers) :
       upstream = [r \in Runs |-> IF r = 1 THEN pg ELSE BlankPage]
  /\ run = [r \in Runs |-> NewRun(r, IF r = 1 THEN "start" ELSE "off")]
  /\ baseDomain = [r \in Runs |-> NoDomain]
  /\ requests = {}
  /\ sent = Counting
  /\ FetchUnused
  /\ PoolUnused
  /\ WrapUnused
  /\ HlsUnused

SpecLive == LiveInit /\ [][RunNext]_vars /\ WF_vars(RunNext)

RECURSIVE SumOver(_, _)
SumOver(n, keys) ==
  IF keys = {} THEN 0
  ELSE LET key == CHOOSE x \in keys : TRUE IN
       n[key] + SumOver(n, keys \ {key})

TotalSent(r) == SumOver(sent.n[r], DOMAIN sent.n[r])

WithinBudget(r) ==
  LET n == sent.n[r]
      N == Len(ListedServers(upstream[r])) IN
  /\ n[<<"embed", -1>>] <= 3
  /\ \A key \in DOMAIN n :
       /\ key[1] = "embed" /\ key[2] # -1 => n[key] = 0
       /\ key[1] # "embed" /\ (key[2] = -1 \/ key[2] >= N) => n[key] = 0
       /\ key[1] = "rcp" => n[key] <= 3
       /\ key[1] = "prorcp" => n[key] <= 2
       /\ key[1] = "hls" => n[key] <= 2
  /\ TotalSent(r) <= 3 + 7 * N

WrapInit ==
  /\ \E url \in RequestUrls : wrap = NewRequest(url)
  /\ FetchUnused
  /\ PoolUnused
  /\ PipeUnused
  /\ HlsUnused

\* module.exports(req, res) up to its return
WrapCall ==
  /\ wrap.pc = "idle"
  /\ \E how \in {"throws", "ends", "pending"}, status \in HandlerStatuses :
       wrap' = CallHandler(setTimeout(wrap), how, status)
  /\ WrapFrame

\* the handler ends the response it was handed
WrapHandlerResponds ==
  /\ wrap.handler = "pending"
  /\ \E status \in HandlerStatuses : wrap' = HandlerResponds(wrap, status)
  /\ WrapFrame

\* HARD_TIMEOUT_MS elapsed with the timer still set
WrapHardTimeout ==
  /\ wrap.timer.state = "armed"
  /\ wrap.pc = "returned"
  /\ wrap' = OnHardTimeout(wrap)
  /\ WrapFrame

\* the response was flushed: 'finish'
WrapFinish ==
  /\ wrap.finish = "due"
  /\ ~wrap.closed
  /\ wrap' = [OnFinishOrClose(wrap) EXCEPT !.finish = "emitted"]
  /\ WrapFrame

\* the connection went away, after the response or under it: 'close'
WrapClose ==
  /\ wrap.pc = "returned"
  /\ ~wrap.closed
  /\ wrap' = [OnFinishOrClose(wrap) EXCEPT !.closed = TRUE]
  /\ WrapFrame

WrapNext ==
  \/ WrapCall
  \/ WrapHandlerResponds
  \/ WrapHardTimeout
  \/ WrapFinish
  \/ WrapClose

SpecWrap == WrapInit /\ [][WrapNext]_vars

\* C11: in the request wrapper the response is ended exactly once: when the
\* timer fires before the handler answered the caller gets 504, and neither
\* the handler after the timeout nor the timeout after the handler ends the
\* response a second time.
C11_EndedOnce ==
  /\ Len(wrap.ends) <= 1
  /\ (wrap.timer.state = "fired" /\ wrap.ends # <<>>
        => wrap.ends[1].by = "handler"
           \/ wrap.ends[1] = EndCall("wrapper", GATEWAY_TIMEOUT))


\* ------------------------------------------------------------------------
\* A lone parseHLSMaster call, on any manifest of at most MaxPlaylists
\* playlists
\* ------------------------------------------------------------------------
HlsInit ==
  /\ \E playlists \in SeqsUpTo(Playlists, MaxPlaylists), baseUrl \in BaseUrls :
       hls = NewParse(playlists, baseUrl)
  /\ FetchUnused
  /\ PoolUnused
  /\ PipeUnused
  /\ WrapUnused

HlsParse ==
  /\ hls.pc = "called"
  /\ hls' = [hls EXCEPT !.pc = "returned",
                        !.result = parseHLSMaster(hls.playlists, hls.baseUrl)]
  /\ HlsFrame

HlsNext == HlsParse

SpecHls == HlsInit /\ [][HlsNext]_vars

\* the bandwidth a playlist stands for in the ranking
RankedBandwidth(playlist) ==
  IF playlist.bw.kind = "num" THEN playlist.bw.v ELSE 0

\* C12: the variants parseHLSMaster returns are in descending order of
\* bandwidth, a playlist without bandwidth counts as 0, and there is exactly
\* one variant for each playlist of the manifest.
C12_SortedByBandwidth ==
  hls.pc = "returned" =>
    LET q == hls.result.qualities
        n == Len(hls.playlists)
    IN IF hls.result.isNull
       THEN \E i \in 1..n : UrlThrows(hls.playlists[i], hls.baseUrl)
       ELSE /\ Len(q) = n
            /\ {q[i].from : i \in 1..Len(q)} = 1..n
            /\ \A i \in 1..Len(q) :
                 q[i].bandwidth = RankedBandwidth(hls.playlists[q[i].from])
            /\ \A i \in 1..(Len(q) - 1) :
                 q[i].bandwidth >= q[i + 1].bandwidth

C12_Witness ==
  /\ hls.pc = "returned"
  /\ ~hls.result.isNull
  /\ Len(hls.playlists) = 3
  /\ hls.playlists[1].bw = NoBandwidth
  /\ hls.playlists[2].bw = NumBandwidth(1500000)
  /\ hls.playlists[3].bw = NumBandwidth(6000000)
  /\ [i \in 1..3 |-> hls.result.qualities[i].from] = <<3, 2, 1>>
  /\ hls.result.qualities[3].bandwidth = 0

=============================================================================
